---- MODULE Spec2Model ----
(***************************************************************************)
(* State machine of the Mafia game server (src/server.js): one room of the *)
(* `games` registry, its players, the connected sockets, the pending       *)
(* setTimeout callbacks of startGame and the periodic cleanup.             *)
(***************************************************************************)
EXTENDS Integers, Sequences, FiniteSets, TLC

\* ------------------------------------------------------------------ universe
\* Player ids a client may put in a payload (uuid strings in the program).
PIDs == {"p1", "p2", "p3"}
PIDs4 == PIDs \cup {"p4"}
NoPid == "none"
Roles == {"Mafia", "Detective", "Doctor", "Villager"}
NoRole == "null"
NoPhase == "null"
ActionTypes == {"kill", "save", "investigate"}

\* Socket ids are handed out in increasing order; commands arrive on the first
\* MaxSockets of them.
MaxSockets == 2
\* At most MaxTimers startGame timer batches are pending at once.
MaxTimers == 2
\* Role counts a client submits to updateRoleSettings range over 0..MaxCount.
MaxCount == 2
\* Granularity of the clock: lastActive ages in steps of TickMs milliseconds.
TickMs == 200000
\* At most MaxNextNights next-night broadcasts of processDayVotes are pending.
MaxNextNights == 1

ROOM_EXPIRY_MS == 300000
PRUNE_GRACE_MS == 120000
minPlayers == 3
MaxIdle == (ROOM_EXPIRY_MS \div TickMs) + 1

VARIABLES
    inGames,       \* games[rId] is defined
    players,       \* game.players: playerId -> [socketId, role, alive, ready]
    order,         \* Object.keys(game.players): insertion order of the keys
    hostId,        \* game.hostId
    status,        \* game.status
    phase,         \* game.phase
    roleSettings,  \* game.roleSettings
    nightActions,  \* game.nightActions: actor -> [actionType, targetId]
    votes,         \* game.votes: voter -> targetId
    idle,          \* (now - game.lastActive) in ticks of TickMs
    sockets,       \* ids of the connected sockets (io.sockets.sockets)
    usedSockets,   \* number of socket ids handed out so far
    sdata,         \* socket.data.playerId of each connected socket
    timers,        \* pending startGame timer batches, oldest first
    nextNights,    \* pending next-night broadcasts of processDayVotes
    sinceCommand,  \* time since the last accepted command, in ticks of TickMs
    crashed,       \* an exception escaped a timer callback
    last           \* the last accepted command and what the handler emitted

vars == <<inGames, players, order, hostId, status, phase, roleSettings,
          nightActions, votes, idle, sockets, usedSockets, sdata, timers,
          nextNights, sinceCommand, crashed, last>>

room == <<inGames, players, order, hostId, status, phase, roleSettings,
          nightActions, votes>>

\* ------------------------------------------------------------------ helpers
EmptyMap == [x \in {} |-> TRUE]

Range(s) == {s[i] : i \in 1..Len(s)}

Without(s, x) == SelectSeq(s, LAMBDA y : y # x)

Drop(f, x) == [y \in DOMAIN f \ {x} |-> f[y]]

Put(f, x, v) == [y \in DOMAIN f \cup {x} |-> IF y = x THEN v ELSE f[y]]

getDefaultRoleSettings == [mafiaCount |-> 1, detectiveCount |-> 1, doctorCount |-> 1]

Min(a, b) == IF a < b THEN a ELSE b

Max(a, b) == IF a > b THEN a ELSE b

\* What the last handler was and what it computed and emitted: the command and
\* its payload, the resolution it ran, processNightActions' kills and saves,
\* the playerEliminated events and the gameOver winner; the socket the command
\* came on, the roleSettings of the payload, the event a timer callback
\* emitted, and the roles in the players object of the nightBegins, dayBegins,
\* gameStateUpdate or lobbyUpdate event the handler sent.
Last(op, pid, a, t, res, kills, saves, killed, winner) ==
    [op |-> op, pid |-> pid, actionType |-> a, targetId |-> t, resolved |-> res,
     kills |-> kills, saves |-> saves, killed |-> killed, winner |-> winner,
     socket |-> 0, settings |-> getDefaultRoleSettings, emitted |-> "none",
     payload |-> EmptyMap]

Did(op, pid) == Last(op, pid, "-", NoPid, "none", {}, {}, {}, "none")

\* players: game.players in an event: every entry goes out whole, role included.
playersPayload(P) == [p \in DOMAIN P |-> P[p].role]

\* assignRoles before the shuffle: the list of roles, capped by the head count.
Rep(n, r) == [i \in 1..Max(n, 0) |-> r]

\* assignRoles with the loops running one step too far (i <= in place of i <).
assignRolesOffByOne(settings, playerCount) ==
    LET m == Rep(Min(settings.mafiaCount + 1, playerCount), "Mafia")
        d == Rep(Min(settings.detectiveCount, playerCount - Len(m)), "Detective")
        c == Rep(Min(settings.doctorCount, playerCount - Len(m) - Len(d)), "Doctor")
        s == m \o d \o c
    IN  SubSeq(s \o Rep(playerCount - Len(s), "Villager"), 1, playerCount)

assignRoles(settings, playerCount) ==
    LET m == Rep(Min(settings.mafiaCount, playerCount), "Mafia")
        d == Rep(Min(settings.detectiveCount, playerCount - Len(m)), "Detective")
        c == Rep(Min(settings.doctorCount, playerCount - Len(m) - Len(d)), "Doctor")
        s == m \o d \o c
    IN  SubSeq(s \o Rep(playerCount - Len(s), "Villager"), 1, playerCount)

CountOf(list, r) == Cardinality({i \in 1..Len(list) : list[i] = r})

\* roles.sort(() => Math.random() - 0.5): some permutation of the list, zipped
\* with Object.keys(game.players).
IsShuffle(f, list) ==
    \A r \in Roles : Cardinality({p \in DOMAIN f : f[p] = r}) = CountOf(list, r)

validateRoleSettings(settings, playerCount) ==
    /\ ~(settings.mafiaCount + settings.detectiveCount + settings.doctorCount > playerCount)
    /\ ~(settings.mafiaCount < 1)
    /\ ~(settings.detectiveCount < 0 \/ settings.doctorCount < 0)

\* n || 1
OrOne(n) == IF n = 0 THEN 1 ELSE n

storedRoleSettings(rs) ==
    [mafiaCount |-> Max(1, OrOne(rs.mafiaCount)),
     detectiveCount |-> Max(0, OrOne(rs.detectiveCount)),
     doctorCount |-> Max(0, OrOne(rs.doctorCount))]

alivePlayers(P) == {p \in DOMAIN P : P[p].alive}

\* checkWinConditions: the winner it declares, "none" when it declares none.
checkWinConditions(P, st) ==
    LET mafiaAlive == Cardinality({p \in alivePlayers(P) : P[p].role = "Mafia"})
        villagersAlive == Cardinality(alivePlayers(P)) - mafiaAlive
    IN  IF st = "finished" THEN "none"
        ELSE IF mafiaAlive = 0 THEN "Villagers"
        ELSE IF mafiaAlive >= villagersAlive THEN "Mafia"
        ELSE "none"

\* processNightActions: the kill and save sets and the players eliminated.
nightKills(P, NA) ==
    {NA[a].targetId : a \in {a \in DOMAIN NA : /\ a \in DOMAIN P
                                               /\ P[a].alive
                                               /\ P[a].role = "Mafia"
                                               /\ NA[a].actionType = "kill"}}

nightSaves(P, NA) ==
    {NA[a].targetId : a \in {a \in DOMAIN NA : /\ a \in DOMAIN P
                                               /\ P[a].alive
                                               /\ P[a].role = "Doctor"
                                               /\ NA[a].actionType = "save"}}

\* processNightActions without the saves.has(targetId) test.
nightKilledDespiteSave(P, NA) ==
    {t \in nightKills(P, NA) : t \in DOMAIN P /\ P[t].alive}

nightKilled(P, NA) ==
    {t \in nightKills(P, NA) : t \notin nightSaves(P, NA) /\ t \in DOMAIN P /\ P[t].alive}

Eliminate(P, K) == [p \in DOMAIN P |-> IF p \in K THEN [P[p] EXCEPT !.alive = FALSE] ELSE P[p]]

\* processDayVotes: the tally and the player eliminated, if any.
tally(V, t) == Cardinality({v \in DOMAIN V : V[v] = t})

voteTargets(V) == {V[v] : v \in DOMAIN V}

eliminatedCandidates(V) ==
    {t \in voteTargets(V) : \A u \in voteTargets(V) : tally(V, u) <= tally(V, t)}

\* processDayVotes eliminating on a tie as well.
dayEliminatedOnTie(P, V) ==
    {t \in eliminatedCandidates(V) : t \in DOMAIN P /\ P[t].alive}

dayEliminated(P, V) ==
    LET c == eliminatedCandidates(V)
    IN  IF Cardinality(c) = 1
        THEN {t \in c : t \in DOMAIN P /\ P[t].alive}
        ELSE {}

\* ------------------------------------------------------------------ initial state
Init ==
    /\ inGames = FALSE
    /\ players = EmptyMap
    /\ order = <<>>
    /\ hostId = NoPid
    /\ status = "waiting"
    /\ phase = NoPhase
    /\ roleSettings = getDefaultRoleSettings
    /\ nightActions = EmptyMap
    /\ votes = EmptyMap
    /\ idle = 0
    /\ sockets = {}
    /\ usedSockets = 0
    /\ sdata = EmptyMap
    /\ timers = <<>>
    /\ nextNights = 0
    /\ sinceCommand = 0
    /\ crashed = FALSE
    /\ last = Did("init", NoPid)

\* The sockets a command may arrive on: a connected one, or a new connection.
Senders == sockets \cup {usedSockets + 1}

Connect(s) ==
    /\ sockets' = sockets \cup {s}
    /\ usedSockets' = Max(usedSockets, s)

\* delete games[rId]: the room's fields are gone; pending timers keep the
\* detached game object.
Orphaned(ts) == [i \in 1..Len(ts) |-> [ts[i] EXCEPT !.orphan = TRUE]]

DeleteRoom ==
    /\ inGames' = FALSE
    /\ players' = EmptyMap
    /\ order' = <<>>
    /\ hostId' = NoPid
    /\ status' = "waiting"
    /\ phase' = NoPhase
    /\ roleSettings' = getDefaultRoleSettings
    /\ nightActions' = EmptyMap
    /\ votes' = EmptyMap
    /\ idle' = 0
    /\ sinceCommand' = 0
    /\ timers' = Orphaned(timers)

\* ------------------------------------------------------------------ commands
NewPlayer(s) == [socketId |-> s, role |-> NoRole, alive |-> TRUE, ready |-> FALSE]

\* The last key of game.players whose socketId is the sender's socket.
existingPlayerId(s) ==
    LET hits == {i \in 1..Len(order) : players[order[i]].socketId = s}
    IN  IF hits = {} THEN NoPid
        ELSE order[CHOOSE i \in hits : \A j \in hits : j <= i]

\* createOrJoinRoom replacing the entry of a known playerId by a new entry.
createOrJoinRoomAfresh(s, pId) ==
    /\ ~crashed
    /\ s \in Senders
    /\ Connect(s)
    /\ inGames' = TRUE
    /\ hostId' = IF inGames THEN hostId ELSE pId
    /\ players' = Put(players, pId, NewPlayer(s))
    /\ order' = IF pId \in DOMAIN players THEN order ELSE Append(order, pId)
    /\ sdata' = Put(sdata, s, pId)
    /\ idle' = 0
    /\ sinceCommand' = 0
    /\ last' = [Did("createOrJoinRoom", pId) EXCEPT
                   !.socket = s, !.payload = playersPayload(players')]
    /\ UNCHANGED <<status, phase, roleSettings, nightActions, votes, timers,
                   nextNights, crashed>>

\* socket.on("createOrJoinRoom")
CreateOrJoinRoom(s, pId) ==
    /\ ~crashed
    /\ s \in Senders
    /\ Connect(s)
    /\ inGames' = TRUE
    /\ hostId' = IF inGames THEN hostId ELSE pId
    /\ LET e == existingPlayerId(s)
       IN  IF e # NoPid
           THEN /\ players' = [players EXCEPT ![e].socketId = s]
                /\ order' = order
           ELSE IF pId \in DOMAIN players
           THEN /\ players' = [players EXCEPT ![pId].socketId = s]
                /\ order' = order
           ELSE /\ players' = Put(players, pId, NewPlayer(s))
                /\ order' = Append(order, pId)
    /\ sdata' = Put(sdata, s, pId)
    /\ idle' = 0
    /\ sinceCommand' = 0
    /\ last' = [Did("createOrJoinRoom", pId) EXCEPT
                   !.socket = s, !.payload = playersPayload(players')]
    /\ UNCHANGED <<status, phase, roleSettings, nightActions, votes, timers,
                   nextNights, crashed>>

SettingsInputs ==
    [mafiaCount : -1..MaxCount, detectiveCount : -1..MaxCount, doctorCount : -1..MaxCount]

\* socket.on("updateRoleSettings")
UpdateRoleSettings(playerId, rs) ==
    /\ ~crashed
    /\ inGames
    /\ hostId = playerId
    /\ validateRoleSettings(rs, Cardinality(DOMAIN players))
    /\ roleSettings' = storedRoleSettings(rs)
    /\ idle' = 0
    /\ sinceCommand' = 0
    /\ last' = [Did("updateRoleSettings", playerId) EXCEPT
                   !.settings = rs, !.payload = playersPayload(players)]
    /\ UNCHANGED <<inGames, players, order, hostId, status, phase, nightActions,
                   votes, sockets, usedSockets, sdata, timers, nextNights, crashed>>

\* socket.on("playerReady")
PlayerReady(playerId, ready) ==
    /\ ~crashed
    /\ inGames
    /\ playerId \in DOMAIN players
    /\ players' = [players EXCEPT ![playerId].ready = ready]
    /\ idle' = 0
    /\ sinceCommand' = 0
    /\ last' = [Did("playerReady", playerId) EXCEPT !.payload = playersPayload(players')]
    /\ UNCHANGED <<inGames, order, hostId, status, phase, roleSettings, nightActions,
                   votes, sockets, usedSockets, sdata, timers, nextNights, crashed>>

\* startGame without the check that every player is ready.
startGameIgnoringReady(playerId) ==
    /\ inGames
    /\ hostId = playerId
    /\ ~(Len(order) < minPlayers)
    /\ validateRoleSettings(roleSettings, Len(order))

\* The conditions under which startGame goes past its early returns.
startGameAccepted(playerId) ==
    /\ inGames
    /\ hostId = playerId
    /\ ~(Len(order) < minPlayers)
    /\ \A p \in DOMAIN players : players[p].ready
    /\ validateRoleSettings(roleSettings, Len(order))

\* socket.on("startGame"); f is the shuffled role of each player.
StartGame(playerId, f) ==
    /\ ~crashed
    /\ startGameAccepted(playerId)
    /\ Len(timers) < MaxTimers
    /\ DOMAIN f = DOMAIN players
    /\ IsShuffle(f, assignRoles(roleSettings, Len(order)))
    /\ players' = [p \in DOMAIN players |->
                      [players[p] EXCEPT !.role = f[p], !.alive = TRUE]]
    /\ status' = "playing"
    /\ phase' = "roleReveal"
    /\ nightActions' = EmptyMap
    /\ votes' = EmptyMap
    /\ idle' = 0
    /\ timers' = Append(timers, [pids |-> order, fired |-> 0, orphan |-> FALSE])
    /\ sinceCommand' = 0
    /\ last' = Did("startGame", playerId)
    /\ UNCHANGED <<inGames, order, hostId, roleSettings, sockets, usedSockets, sdata,
                   nextNights, crashed>>

\* nightAction without the check for an action already submitted.
nightActionResubmitted(playerId) ==
    /\ inGames
    /\ phase = "night"
    /\ playerId \in DOMAIN players
    /\ players[playerId].alive

\* The conditions under which nightAction records the action.
nightActionAccepted(playerId) ==
    /\ inGames
    /\ phase = "night"
    /\ playerId \in DOMAIN players
    /\ players[playerId].alive
    /\ playerId \notin DOMAIN nightActions

\* socket.on("nightAction"), with processNightActions when the round completes.
NightAction(playerId, actionType, targetId) ==
    /\ ~crashed
    /\ nightActionAccepted(playerId)
    /\ LET NA == Put(nightActions, playerId,
                     [actionType |-> actionType, targetId |-> targetId])
           nightRolePlayers == {p \in alivePlayers(players) : players[p].role # "Villager"}
       IN  IF Cardinality(DOMAIN NA) >= Cardinality(nightRolePlayers)
           THEN LET K == nightKilled(players, NA)
                    P == Eliminate(players, K)
                    w == checkWinConditions(P, status)
                IN  /\ players' = P
                    /\ nightActions' = EmptyMap
                    /\ phase' = IF w = "none" THEN "day" ELSE NoPhase
                    /\ status' = IF w = "none" THEN status ELSE "finished"
                    /\ idle' = 0
                    /\ last' = [Last("nightAction", playerId, actionType, targetId, "night",
                                     nightKills(players, NA), nightSaves(players, NA), K, w)
                                   EXCEPT !.payload = playersPayload(P)]
           ELSE /\ nightActions' = NA
                /\ last' = Last("nightAction", playerId, actionType, targetId, "none",
                                {}, {}, {}, "none")
                /\ UNCHANGED <<players, phase, status, idle>>
    /\ sinceCommand' = 0
    /\ UNCHANGED <<inGames, order, hostId, roleSettings, votes, sockets, usedSockets,
                   sdata, timers, nextNights, crashed>>

\* The conditions under which dayVote records the vote.
dayVoteAccepted(playerId) ==
    /\ inGames
    /\ phase = "day"
    /\ playerId \in DOMAIN players
    /\ players[playerId].alive

\* socket.on("dayVote"), with processDayVotes when the round completes.
DayVote(playerId, targetId) ==
    /\ ~crashed
    /\ dayVoteAccepted(playerId)
    /\ LET V == Put(votes, playerId, targetId)
       IN  IF Cardinality(DOMAIN V) >= Cardinality(alivePlayers(players))
           THEN LET K == dayEliminated(players, V)
                    P == Eliminate(players, K)
                    w == checkWinConditions(P, status)
                IN  /\ players' = P
                    /\ votes' = EmptyMap
                    /\ phase' = IF w = "none" THEN "night" ELSE NoPhase
                    /\ status' = IF w = "none" THEN status ELSE "finished"
                    /\ idle' = 0
                    /\ nextNights' = IF status' = "playing" THEN nextNights + 1
                                     ELSE nextNights
                    /\ nextNights' <= MaxNextNights
                    /\ last' = Last("dayVote", playerId, "-", targetId, "day", {}, {}, K, w)
           ELSE /\ votes' = V
                /\ last' = Last("dayVote", playerId, "-", targetId, "none", {}, {}, {}, "none")
                /\ UNCHANGED <<players, phase, status, idle, nextNights>>
    /\ sinceCommand' = 0
    /\ UNCHANGED <<inGames, order, hostId, roleSettings, nightActions, sockets,
                   usedSockets, sdata, timers, crashed>>

\* leaveLobby without the reassignment of the host.
leaveLobbyKeepingHost(playerId) ==
    /\ ~crashed
    /\ inGames
    /\ playerId \in DOMAIN players
    /\ LET o == Without(order, playerId)
       IN  IF Len(o) = 0
           THEN DeleteRoom
           ELSE /\ players' = Drop(players, playerId)
                /\ order' = o
                /\ hostId' = hostId
                /\ idle' = 0
                /\ sinceCommand' = 0
                /\ UNCHANGED <<inGames, status, phase, roleSettings, nightActions,
                               votes, timers>>
    /\ last' = [Did("leaveLobby", playerId) EXCEPT !.payload = playersPayload(players')]
    /\ UNCHANGED <<sockets, usedSockets, sdata, nextNights, crashed>>

\* socket.on("leaveLobby")
LeaveLobby(playerId) ==
    /\ ~crashed
    /\ inGames
    /\ playerId \in DOMAIN players
    /\ LET o == Without(order, playerId)
       IN  IF Len(o) = 0
           THEN DeleteRoom
           ELSE /\ players' = Drop(players, playerId)
                /\ order' = o
                /\ hostId' = IF hostId = playerId THEN o[1] ELSE hostId
                /\ idle' = 0
                /\ sinceCommand' = 0
                /\ UNCHANGED <<inGames, status, phase, roleSettings, nightActions,
                               votes, timers>>
    /\ last' = [Did("leaveLobby", playerId) EXCEPT !.payload = playersPayload(players')]
    /\ UNCHANGED <<sockets, usedSockets, sdata, nextNights, crashed>>

\* disconnect marking the player of the socket as not ready.
disconnectUnready(s) ==
    /\ ~crashed
    /\ s \in sockets
    /\ sockets' = sockets \ {s}
    /\ sdata' = Drop(sdata, s)
    /\ idle' = IF s \in DOMAIN sdata /\ inGames /\ sdata[s] \in DOMAIN players
               THEN 0 ELSE idle
    /\ players' = IF s \in DOMAIN sdata /\ inGames /\ sdata[s] \in DOMAIN players
                  THEN [players EXCEPT ![sdata[s]].ready = FALSE] ELSE players
    /\ sinceCommand' = IF idle' = idle THEN sinceCommand ELSE 0
    /\ last' = [Did("disconnect", IF s \in DOMAIN sdata THEN sdata[s] ELSE NoPid)
                  EXCEPT !.socket = s]
    /\ UNCHANGED <<inGames, order, hostId, status, phase, roleSettings,
                   nightActions, votes, usedSockets, timers, nextNights, crashed>>

\* socket.on("disconnect")
Disconnect(s) ==
    /\ ~crashed
    /\ s \in sockets
    /\ sockets' = sockets \ {s}
    /\ sdata' = Drop(sdata, s)
    /\ idle' = IF s \in DOMAIN sdata /\ inGames /\ sdata[s] \in DOMAIN players
               THEN 0 ELSE idle
    /\ sinceCommand' = IF idle' = idle THEN sinceCommand ELSE 0
    /\ last' = [Did("disconnect", IF s \in DOMAIN sdata THEN sdata[s] ELSE NoPid)
                  EXCEPT !.socket = s]
    /\ UNCHANGED <<inGames, players, order, hostId, status, phase, roleSettings,
                   nightActions, votes, usedSockets, timers, nextNights, crashed>>

\* socket.on("reconnectToRoom")
ReconnectToRoom(s, playerId) ==
    /\ ~crashed
    /\ s \in Senders
    /\ inGames
    /\ playerId \in DOMAIN players
    /\ Connect(s)
    /\ players' = [players EXCEPT ![playerId].socketId = s]
    /\ sdata' = Put(sdata, s, playerId)
    /\ idle' = 0
    /\ sinceCommand' = 0
    /\ last' = [Did("reconnectToRoom", playerId) EXCEPT
                   !.socket = s, !.payload = playersPayload(players')]
    /\ UNCHANGED <<inGames, order, hostId, status, phase, roleSettings, nightActions,
                   votes, timers, nextNights, crashed>>

\* ------------------------------------------------------------------ timers
\* The periodic cleanup's loop over the players of a waiting room.
RECURSIVE Prune(_, _, _, _)
Prune(todo, P, o, h) ==
    IF todo = <<>> THEN [players |-> P, order |-> o, hostId |-> h]
    ELSE LET playerId == Head(todo)
         IN  IF P[playerId].socketId \notin sockets /\ idle * TickMs > PRUNE_GRACE_MS
             THEN LET o2 == Without(o, playerId)
                  IN  Prune(Tail(todo), Drop(P, playerId), o2,
                            IF h = playerId /\ Len(o2) > 0 THEN o2[1] ELSE h)
             ELSE Prune(Tail(todo), P, o, h)

\* setInterval(..., 30000): one sweep over the registry.
Cleanup ==
    /\ ~crashed
    /\ inGames
    /\ IF Len(order) = 0 \/ idle * TickMs > ROOM_EXPIRY_MS
       THEN DeleteRoom
       ELSE /\ status = "waiting"
            /\ LET r == Prune(order, players, order, hostId)
               IN  /\ r.order # order
                   /\ players' = r.players
                   /\ order' = r.order
                   /\ hostId' = r.hostId
            /\ UNCHANGED <<inGames, status, phase, roleSettings, nightActions, votes,
                           idle, sinceCommand, timers>>
    /\ last' = [Did("cleanup", NoPid) EXCEPT !.payload = playersPayload(players')]
    /\ UNCHANGED <<sockets, usedSockets, sdata, nextNights, crashed>>

\* Time passes: lastActive is one tick older. The startGame timers (at most 5 s)
\* and the next-night broadcasts (3 s) have fired before a tick of TickMs elapses.
Tick ==
    /\ ~crashed
    /\ inGames
    /\ timers = <<>>
    /\ nextNights = 0
    /\ idle < MaxIdle
    /\ idle' = idle + 1
    /\ sinceCommand' = sinceCommand + 1
    /\ last' = Did("tick", NoPid)
    /\ UNCHANGED <<inGames, players, order, hostId, status, phase, roleSettings,
                   nightActions, votes, sockets, usedSockets, sdata, timers,
                   nextNights, crashed>>

RemoveAt(s, i) == SubSeq(s, 1, i - 1) \o SubSeq(s, i + 1, Len(s))

\* Timers of an earlier startGame with the same delay fire first.
EarlierFired(b, n) ==
    \A e \in 1..(b - 1) : timers[e].fired >= Min(n, Len(timers[e].pids))

\* setTimeout(..., index * 200) of startGame: the roleAssigned delivery.
RoleAssigned(b) ==
    /\ ~crashed
    /\ b \in 1..Len(timers)
    /\ timers[b].fired < Len(timers[b].pids)
    /\ EarlierFired(b, timers[b].fired + 1)
    /\ LET pid == timers[b].pids[timers[b].fired + 1]
       IN  /\ crashed' = (timers[b].orphan \/ pid \notin DOMAIN players)
           /\ last' = [Did("roleAssigned", pid) EXCEPT
                          !.emitted = IF ~crashed' /\ players[pid].socketId \in sockets
                                      THEN "roleAssigned" ELSE "none"]
    /\ timers' = [timers EXCEPT ![b].fired = @ + 1]
    /\ UNCHANGED <<inGames, players, order, hostId, status, phase, roleSettings,
                   nightActions, votes, idle, sockets, usedSockets, sdata,
                   nextNights, sinceCommand>>

\* setTimeout(..., 5000) of startGame: the first night begins.
NightBegins(b) ==
    /\ ~crashed
    /\ b = 1
    /\ b \in 1..Len(timers)
    /\ timers[b].fired = Len(timers[b].pids)
    /\ phase' = IF timers[b].orphan THEN phase ELSE "night"
    /\ timers' = RemoveAt(timers, b)
    /\ last' = [Did("nightBegins", NoPid) EXCEPT
                   !.emitted = "nightBegins",
                   !.payload = IF timers[b].orphan THEN EmptyMap
                               ELSE playersPayload(players)]
    /\ UNCHANGED <<inGames, players, order, hostId, status, roleSettings,
                   nightActions, votes, idle, sockets, usedSockets, sdata,
                   nextNights, sinceCommand, crashed>>

\* setTimeout(..., 3000) of processDayVotes: the next-night broadcast. (A room
\* deleted and created anew while the broadcast is pending is not told apart
\* from the old one.)
NextNightBegins ==
    /\ ~crashed
    /\ nextNights > 0
    /\ nextNights' = nextNights - 1
    /\ last' = [Did("nextNightBegins", NoPid) EXCEPT
                   !.emitted = "nightBegins", !.payload = playersPayload(players)]
    /\ UNCHANGED <<inGames, players, order, hostId, status, phase, roleSettings,
                   nightActions, votes, idle, sockets, usedSockets, sdata, timers,
                   sinceCommand, crashed>>

\* ------------------------------------------------------------------ specification
Membership(ids) ==
    \/ \E s \in 1..MaxSockets, p \in ids : CreateOrJoinRoom(s, p)
    \/ \E p \in ids : LeaveLobby(p)
    \/ \E s \in 1..MaxSockets : Disconnect(s)
    \/ \E s \in 1..MaxSockets, p \in ids : ReconnectToRoom(s, p)

Janitor ==
    \/ Cleanup
    \/ Tick

Lobby(ids) ==
    \/ \E p \in ids, rs \in SettingsInputs : UpdateRoleSettings(p, rs)
    \/ \E p \in ids, r \in BOOLEAN : PlayerReady(p, r)

Start(ids) ==
    \/ \E p \in ids, f \in [DOMAIN players -> Roles] : StartGame(p, f)
    \/ \E b \in 1..MaxTimers : RoleAssigned(b)
    \/ \E b \in 1..MaxTimers : NightBegins(b)

Night(ids, types) == \E p \in ids, a \in types, t \in ids : NightAction(p, a, t)

Day(ids) == \E p \in ids, t \in ids : DayVote(p, t)

\* The commands of a game whose clients wait for the next-night broadcast
\* before they send the next command.
PacedNight(ids, types) == nextNights = 0 /\ Night(ids, types)

PacedDay(ids) == nextNights = 0 /\ Day(ids)

Next ==
    \/ Membership(PIDs4)
    \/ Janitor
    \/ Lobby(PIDs4)
    \/ Start(PIDs4)
    \/ Night(PIDs4, ActionTypes)
    \/ Day(PIDs4)
    \/ NextNightBegins

Spec == Init /\ [][Next]_vars

\* Rooms filling and emptying: joins, leaves, connections and the janitor.
SpecRoom == Init /\ [][Membership(PIDs) \/ Janitor]_vars

\* A lobby of n joined players, each on a socket of their own, as n joins
\* (and, with r, n ready toggles) leave it.
Seated(n, r) ==
    /\ inGames = TRUE
    /\ order = SubSeq(<<"p1", "p2", "p3", "p4">>, 1, n)
    /\ players = [p \in Range(order) |->
                    [socketId |-> CHOOSE i \in 1..n : order[i] = p,
                     role |-> NoRole, alive |-> TRUE, ready |-> r]]
    /\ hostId = "p1"
    /\ status = "waiting"
    /\ phase = NoPhase
    /\ roleSettings = getDefaultRoleSettings
    /\ nightActions = EmptyMap
    /\ votes = EmptyMap
    /\ idle = 0
    /\ sockets = 1..n
    /\ usedSockets = n
    /\ sdata = [i \in 1..n |-> order[i]]
    /\ timers = <<>>
    /\ nextNights = 0
    /\ sinceCommand = 0
    /\ crashed = FALSE
    /\ last = [(IF r THEN Did("playerReady", order[n])
                     ELSE Did("createOrJoinRoom", order[n]))
                  EXCEPT !.payload = playersPayload(players)]

\* Two to four players in the lobby: settings, ready toggles and game starts.
InitLobby == \E n \in 2..4 : Seated(n, FALSE)

StartOnly(ids) == \E p \in ids, f \in [DOMAIN players -> Roles] : StartGame(p, f)

SpecLobby == InitLobby /\ [][Lobby(PIDs4) \/ StartOnly(PIDs4)]_vars

\* Three ready players: whole games, from startGame to game over and beyond,
\* with players leaving.
InitGame == Seated(3, TRUE)

SpecGame ==
    InitGame /\ [][\/ Start(PIDs)
                   \/ PacedNight(PIDs, {"kill", "save"})
                   \/ PacedDay(PIDs)
                   \/ NextNightBegins
                   \/ \E p \in PIDs : LeaveLobby(p)]_vars

\* n players at the start of the first night, as startGame and its timers
\* leave them, under any role settings updateRoleSettings can have stored.
StoredSettings ==
    {storedRoleSettings(rs) : rs \in {r \in SettingsInputs : validateRoleSettings(r, 4)}}

Begun(n) ==
    /\ inGames = TRUE
    /\ order = SubSeq(<<"p1", "p2", "p3", "p4">>, 1, n)
    /\ roleSettings \in {rs \in StoredSettings : validateRoleSettings(rs, n)}
    /\ \E f \in [Range(order) -> Roles] :
          /\ IsShuffle(f, assignRoles(roleSettings, n))
          /\ players = [p \in Range(order) |->
                          [socketId |-> CHOOSE i \in 1..n : order[i] = p,
                           role |-> f[p], alive |-> TRUE, ready |-> TRUE]]
    /\ hostId = "p1"
    /\ status = "playing"
    /\ phase = "night"
    /\ nightActions = EmptyMap
    /\ votes = EmptyMap
    /\ idle = 0
    /\ sockets = 1..n
    /\ usedSockets = n
    /\ sdata = [i \in 1..n |-> order[i]]
    /\ timers = <<>>
    /\ nextNights = 0
    /\ sinceCommand = 0
    /\ crashed = FALSE
    /\ last = [Did("nightBegins", NoPid) EXCEPT
                  !.emitted = "nightBegins", !.payload = playersPayload(players)]

\* Four players: the nights and days of one game.
InitRounds == Begun(4)

SpecRounds ==
    InitRounds /\ [][\/ PacedNight(PIDs4, {"kill", "save"})
                     \/ PacedDay(PIDs4)
                     \/ NextNightBegins]_vars

\* Three players: the nights and days of one game, with players leaving.
InitPlay == Begun(3)

SpecPlay ==
    InitPlay /\ [][\/ Night(PIDs, ActionTypes)
                   \/ Day(PIDs)
                   \/ NextNightBegins
                   \/ \E p \in PIDs : LeaveLobby(p)]_vars

\* Three players in a game, with the roles in the order assignRoles lists them,
\* while connections drop, return and join again.
Connections(ids) ==
    \/ \E s \in 1..MaxSockets, p \in ids : CreateOrJoinRoom(s, p)
    \/ \E s \in 1..MaxSockets : Disconnect(s)
    \/ \E s \in 1..MaxSockets, p \in ids : ReconnectToRoom(s, p)

InitRejoin ==
    /\ InitPlay
    /\ players["p1"].role = "Mafia"
    /\ players["p2"].role = "Detective"

SpecRejoin ==
    InitRejoin /\ [][\/ Connections(PIDs)
                   \/ PacedNight(PIDs, {"save"})
                   \/ PacedDay(PIDs)
                   \/ NextNightBegins]_vars

\* The same game when a fourth client joins it.
SpecLate ==
    InitRejoin /\ [][\/ Connections(PIDs4)
                     \/ PacedNight(PIDs, {"save"})
                     \/ PacedDay(PIDs)
                     \/ NextNightBegins]_vars

\* Three players in a game whose clients fall silent while the clock runs.
SpecVigil ==
    InitPlay /\ [][\/ PacedNight(PIDs, {"kill", "save"})
                   \/ PacedDay(PIDs)
                   \/ NextNightBegins
                   \/ Janitor]_vars

\* The same games under the clock: every pending timer fires, time passes and
\* the periodic cleanup runs, while no client is bound to send another command.
SpecPlayFair ==
    /\ InitPlay
    /\ [][\/ Night(PIDs, ActionTypes)
          \/ Day(PIDs)
          \/ NextNightBegins
          \/ \E p \in PIDs : LeaveLobby(p)
          \/ Janitor]_vars
    /\ WF_vars(NextNightBegins)
    /\ WF_vars(Tick)
    /\ WF_vars(Cleanup)

\* ------------------------------------------------------------------ claims
Living(P, R) == {p \in DOMAIN P : P[p].alive /\ P[p].role \in R}

\* C1: in every reachable state, a room of the registry with at least one
\* player has a hostId that is the id of one of its current players.
C1_HostIsPlayer ==
    (inGames /\ DOMAIN players # {}) => hostId \in DOMAIN players

\* C2: once a room's status is finished, no step changes its status, its phase
\* (which stays null), nightActions, votes, or the role or alive flag of a
\* player who stays in the room; the room may only lose players or be deleted.
C2_FinishedIsTerminal ==
    [][(inGames /\ status = "finished" /\ inGames')
        => /\ status' = "finished"
           /\ phase = NoPhase
           /\ phase' = NoPhase
           /\ nightActions' = nightActions
           /\ votes' = votes
           /\ \A p \in DOMAIN players \cap DOMAIN players' :
                 /\ players'[p].role = players[p].role
                 /\ players'[p].alive = players[p].alive]_vars

\* C3: playerReady, updateRoleSettings and startGame handled while the status
\* is playing or finished leave every player's entry, roleSettings, status,
\* phase, nightActions and votes unchanged and schedule no timer.
C3_LobbyCommandsOnlyWhileWaiting ==
    [][(inGames /\ status # "waiting"
           /\ last'.op \in {"playerReady", "updateRoleSettings", "startGame"})
        => /\ players' = players
           /\ roleSettings' = roleSettings
           /\ status' = status
           /\ phase' = phase
           /\ nightActions' = nightActions
           /\ votes' = votes
           /\ timers' = timers]_vars

\* C4: a room goes from waiting to playing only by a startGame of its host,
\* with at least 3 players, all of them ready, and stored role settings with
\* mafiaCount >= 1, detectiveCount >= 0, doctorCount >= 0 and a sum of at most
\* the player count; a startGame that violates one of these changes nothing.
C4_Legal(p) ==
    /\ inGames
    /\ hostId = p
    /\ Cardinality(DOMAIN players) >= 3
    /\ \A q \in DOMAIN players : players[q].ready
    /\ roleSettings.mafiaCount >= 1
    /\ roleSettings.detectiveCount >= 0
    /\ roleSettings.doctorCount >= 0
    /\ roleSettings.mafiaCount + roleSettings.detectiveCount + roleSettings.doctorCount
          <= Cardinality(DOMAIN players)

C4_StartOnlyWhenLegal ==
    [][/\ (inGames /\ status = "waiting" /\ inGames' /\ status' = "playing")
            => (last'.op = "startGame" /\ C4_Legal(last'.pid))
       /\ (last'.op = "startGame" /\ ~C4_Legal(last'.pid))
            => UNCHANGED room]_vars

C4_Witness ==
    /\ last.op = "startGame"
    /\ status = "playing"
    /\ Len(timers) = 1
    /\ Cardinality(DOMAIN players) = 3

\* C5: a nightAction is recorded only in the night phase, for a player of the
\* room who is alive and has no recorded action this night, and an action once
\* recorded is never replaced; a dayVote is recorded only in the day phase,
\* for a living player of the room.
C5_SubmissionsOnlyWhenLegal ==
    [][/\ last'.op = "nightAction"
            => /\ inGames /\ phase = "night"
               /\ last'.pid \in DOMAIN players
               /\ players[last'.pid].alive
               /\ last'.pid \notin DOMAIN nightActions
       /\ last'.op = "dayVote"
            => /\ inGames /\ phase = "day"
               /\ last'.pid \in DOMAIN players
               /\ players[last'.pid].alive
       /\ \A a \in DOMAIN nightActions \cap DOMAIN nightActions' :
             nightActions'[a] = nightActions[a]
       /\ (nightActions' # nightActions /\ nightActions' # EmptyMap)
            => last'.op = "nightAction"
       /\ (votes' # votes /\ votes' # EmptyMap) => last'.op = "dayVote"]_vars

C5_Witness ==
    /\ phase = "night"
    /\ last.op = "nightAction"
    /\ last.pid \in DOMAIN nightActions
    /\ last.resolved = "none"

\* C6: when a night is resolved, a player who was alive dies iff a living Mafia
\* player recorded a kill on them and no living Doctor recorded a save on them;
\* nothing else about the players changes, nightActions is emptied and the
\* phase is day unless the game finished.
C6_NightResolution ==
    [][last'.resolved = "night"
        => LET NA == Put(nightActions, last'.pid,
                         [actionType |-> last'.actionType, targetId |-> last'.targetId])
               by(T, r, a) == {x \in DOMAIN NA \cap DOMAIN players :
                                 /\ players[x].alive
                                 /\ players[x].role = r
                                 /\ NA[x] = [actionType |-> a, targetId |-> T]}
           IN  /\ DOMAIN players' = DOMAIN players
               /\ \A T \in DOMAIN players :
                     /\ players[T].alive =>
                           (~players'[T].alive <=>
                               (by(T, "Mafia", "kill") # {} /\ by(T, "Doctor", "save") = {}))
                     /\ ~players[T].alive => ~players'[T].alive
                     /\ players'[T] = [players[T] EXCEPT !.alive = players'[T].alive]
               /\ nightActions' = EmptyMap
               /\ (status' # "finished") => phase' = "day"]_vars

C6_Witness ==
    /\ last.resolved = "night"
    /\ Cardinality(last.kills) = 2
    /\ Cardinality(last.kills \cap last.saves) = 1
    /\ Cardinality(last.killed) = 1
    /\ last.killed = {t \in DOMAIN players : ~players[t].alive}

\* C7: each voter counts once, with the vote they submitted last; when a day
\* is resolved and exactly one target has the most votes that player is not
\* alive afterwards and nobody else changes; on a tie for the most votes nobody
\* changes; votes is emptied and the phase is night unless the game finished.
C7_DayResolution ==
    [][last'.op = "dayVote"
        => LET V == Put(votes, last'.pid, last'.targetId)
               count(t) == Cardinality({v \in DOMAIN V : V[v] = t})
               top == {t \in PIDs4 : count(t) > 0 /\ \A u \in PIDs4 : count(u) <= count(t)}
           IN  IF last'.resolved = "day"
               THEN /\ DOMAIN players' = DOMAIN players
                    /\ Cardinality(top) = 1
                          => \A p \in DOMAIN players :
                                IF p \in top
                                THEN players'[p] = [players[p] EXCEPT !.alive = FALSE]
                                ELSE players'[p] = players[p]
                    /\ Cardinality(top) > 1 => players' = players
                    /\ votes' = EmptyMap
                    /\ (status' # "finished") => phase' = "night"
               ELSE /\ votes' = V
                    /\ players' = players
                    /\ phase' = phase]_vars

C7_Witness ==
    /\ last.resolved = "day"
    /\ last.killed = {}
    /\ Cardinality(alivePlayers(players)) = 4
    /\ phase = "night"

\* C8: right after a night or day resolution the room is finished with winner
\* Villagers iff no living player is Mafia, finished with winner Mafia iff
\* there is a living Mafia and the living Mafia are at least the living
\* others, and still playing otherwise.
C8_WinCheckAfterResolution ==
    [][last'.resolved \in {"night", "day"}
        => LET M == Cardinality(Living(players', {"Mafia"}))
               N == Cardinality(alivePlayers(players')) - M
               over(w) == status' = "finished" /\ phase' = NoPhase /\ last'.winner = w
           IN  /\ over("Villagers") <=> M = 0
               /\ over("Mafia") <=> (M >= 1 /\ M >= N)
               /\ (M >= 1 /\ M < N) => status' = "playing"]_vars

C10_KeysAreEntitled ==
    /\ \A a \in DOMAIN nightActions :
          a \in Living(players, {"Mafia", "Detective", "Doctor"})
    /\ \A v \in DOMAIN votes : v \in alivePlayers(players)

\* C11: an updateRoleSettings that is accepted stores exactly the mafiaCount,
\* detectiveCount and doctorCount of its payload, counts of 0 included, so that
\* the stored counts have mafiaCount >= 1, the others >= 0 and a sum of at most
\* the player count; roleSettings changes by no other command.
C11_StoresSubmittedCounts ==
    [][/\ last'.op = "updateRoleSettings"
            => /\ roleSettings' = last'.settings
               /\ roleSettings'.mafiaCount >= 1
               /\ roleSettings'.detectiveCount >= 0
               /\ roleSettings'.doctorCount >= 0
               /\ roleSettings'.mafiaCount + roleSettings'.detectiveCount
                     + roleSettings'.doctorCount <= Cardinality(DOMAIN players)
       /\ (inGames /\ inGames' /\ roleSettings' # roleSettings)
            => (last'.op = "updateRoleSettings" /\ last'.pid = hostId)]_vars

\* C12: when the night timer of startGame or the next-night timer of a day
\* resolution fires after the game has finished, after the room was deleted,
\* or when the phase it was scheduled for (roleReveal for the first, night for
\* the second) is no longer the current one, it changes nothing in the room
\* and emits no event.
C12_StaleTimersAreNoOps ==
    [][/\ (/\ last'.op = "nightBegins"
           /\ timers[1].orphan \/ ~inGames \/ status # "playing" \/ phase # "roleReveal")
            => (UNCHANGED room /\ last'.emitted = "none")
       /\ (/\ last'.op = "nextNightBegins"
           /\ ~inGames \/ status # "playing" \/ phase # "night")
            => (UNCHANGED room /\ last'.emitted = "none")]_vars

\* C13: no command and no timer callback ever throws an error that nothing
\* catches; a roleAssigned delivery for a player who has left, or for a deleted
\* room, is skipped.
C13_NoUnhandledError == crashed = FALSE

\* C14: a createOrJoinRoom whose playerId is already a key of the room's
\* players adds no entry: the keys and their order are unchanged, every
\* player's role, alive and ready are unchanged, a socketId changes only to
\* the caller's socket (names are not part of the model), and hostId, status,
\* phase, roleSettings, nightActions and votes are unchanged, whatever the
\* status.
C14_JoinIsIdempotent ==
    [][(last'.op = "createOrJoinRoom" /\ inGames /\ last'.pid \in DOMAIN players)
        => /\ inGames'
           /\ DOMAIN players' = DOMAIN players
           /\ order' = order
           /\ \A p \in DOMAIN players :
                 /\ players'[p].role = players[p].role
                 /\ players'[p].alive = players[p].alive
                 /\ players'[p].ready = players[p].ready
                 /\ players'[p].socketId \in {players[p].socketId, last'.socket}
           /\ UNCHANGED <<hostId, status, phase, roleSettings, nightActions, votes>>]_vars

C14_Witness ==
    /\ last.op = "createOrJoinRoom"
    /\ status = "playing"
    /\ last.pid = "p1"
    /\ players["p1"].socketId = 2
    /\ last.socket = 2
    /\ players["p1"].role \in Roles
    /\ players["p1"].ready

\* C15: the playerId a createOrJoinRoom returns to its caller is, after the
\* join, a key of the room's players, and the entry under it is the caller's:
\* its socketId is the socket the command came on.
C15_ReturnedIdIsTheKey ==
    [][last'.op = "createOrJoinRoom"
        => /\ last'.pid \in DOMAIN players'
           /\ players'[last'.pid].socketId = last'.socket]_vars

\* C16: a leaveLobby of a player of the room removes that player's entry and
\* no other, in any status; if the player was the last one the room leaves the
\* registry; otherwise the room stays, the other entries are unchanged, and
\* hostId is the first remaining player in insertion order if the leaver was
\* the host and is unchanged if not.
C16_LeaveRemovesThePlayer ==
    [][last'.op = "leaveLobby"
        => /\ inGames
           /\ last'.pid \in DOMAIN players
           /\ IF DOMAIN players = {last'.pid}
              THEN ~inGames'
              ELSE /\ inGames'
                   /\ DOMAIN players' = DOMAIN players \ {last'.pid}
                   /\ \A p \in DOMAIN players' : players'[p] = players[p]
                   /\ order' = SelectSeq(order, LAMBDA p : p # last'.pid)
                   /\ hostId' = IF hostId = last'.pid THEN order'[1] ELSE hostId
                   /\ hostId = last'.pid => hostId' \in DOMAIN players'
                   /\ UNCHANGED <<status, phase>>]_vars

C16_Witness ==
    /\ last.op = "leaveLobby"
    /\ last.pid = "p1"
    /\ inGames
    /\ status = "playing"
    /\ hostId = "p2"
    /\ order = <<"p2", "p3">>

\* C17: a disconnect changes nothing in a room but lastActive: players (the
\* disconnected one included, with role, alive and ready), hostId, status,
\* phase, nightActions and votes are unchanged, and so are the numbers of
\* living players and of living non-Villagers that the night and day
\* thresholds count.
C17_DisconnectFrame ==
    [][last'.op = "disconnect"
        => /\ UNCHANGED room
           /\ Cardinality(alivePlayers(players')) = Cardinality(alivePlayers(players))
           /\ Living(players', Roles \ {"Villager"}) = Living(players, Roles \ {"Villager"})
           /\ last'.pid \in DOMAIN players => last'.pid \in DOMAIN players']_vars

C17_Witness ==
    /\ last.op = "disconnect"
    /\ status = "playing"
    /\ phase = "night"
    /\ nightActions # EmptyMap
    /\ last.pid \in alivePlayers(players)
    /\ players[last.pid].role = "Mafia"
    /\ players[last.pid].socketId \notin sockets

\* C18: when a nightAction runs the night resolution, every living player of
\* the room with a role other than Villager has a recorded action for the
\* night (the one being submitted included); when a dayVote runs the day
\* resolution, every living player of the room has a recorded vote.
C18_ResolutionWhenAllSubmitted ==
    [][/\ last'.resolved = "night"
            => \A p \in Living(players, Roles \ {"Villager"}) :
                  p \in DOMAIN nightActions \cup {last'.pid}
       /\ last'.resolved = "day"
            => \A p \in alivePlayers(players) : p \in DOMAIN votes \cup {last'.pid}]_vars

\* C19: while a room stays in the registry its phase changes only from
\* roleReveal to night when the night timer of startGame fires, from night to
\* day by a night resolution, from day to night by a day resolution, to null
\* when the game finishes, and from null to roleReveal when a waiting room is
\* started; so no phase goes from day to night without a day resolution and
\* every night and every day is resolved once.
C19_PhaseTransitions ==
    [][(inGames /\ inGames' /\ phase' # phase)
        => \/ phase = "roleReveal" /\ phase' = "night" /\ last'.op = "nightBegins"
           \/ phase = "night" /\ phase' = "day" /\ last'.resolved = "night"
           \/ phase = "day" /\ phase' = "night" /\ last'.resolved = "day"
           \/ phase' = NoPhase /\ status' = "finished" /\ last'.resolved # "none"
           \/ /\ phase = NoPhase /\ phase' = "roleReveal"
              /\ status = "waiting" /\ last'.op = "startGame"]_vars

Commands ==
    {"createOrJoinRoom", "updateRoleSettings", "playerReady", "startGame",
     "nightAction", "dayVote", "leaveLobby", "reconnectToRoom"}

\* C20: the periodic cleanup deletes a room that has players only when no
\* command was accepted in the room during the last ROOM_EXPIRY_MS, and every
\* accepted command, a recorded nightAction or dayVote included, sets
\* lastActive to now.
C20_ExpiryOnlyAfterSilence ==
    [][/\ (last'.op = "cleanup" /\ inGames /\ DOMAIN players # {} /\ ~inGames')
            => sinceCommand * TickMs > ROOM_EXPIRY_MS
       /\ last'.op \in Commands => idle' = 0]_vars

\* C21: after every leaveLobby and after every sweep of the periodic cleanup,
\* one that prunes the last disconnected players of a lobby included, the
\* registry holds no room without players.
C21_NoEmptyRoom ==
    [][last'.op \in {"leaveLobby", "cleanup"}
        => (inGames' => DOMAIN players' # {})]_vars

\* C22: whenever the phase is night and every living player of the room with
\* a role other than Villager has a recorded night action, as when the one
\* player who had not acted leaves, that night is resolved in the end, with no
\* further command needed.
C22_NightComplete ==
    /\ inGames
    /\ phase = "night"
    /\ \A p \in Living(players, Roles \ {"Villager"}) : p \in DOMAIN nightActions

C22_NightNeverStuck == C22_NightComplete ~> (last.resolved = "night")

\* C23: while the status is playing every player of the room has a role of
\* Roles, a player who joined after the game started included.
C23_EveryPlayerHasARole ==
    (inGames /\ status = "playing") => \A p \in DOMAIN players : players[p].role \in Roles

\* C24: in every reachable state where the status is playing and the phase is
\* night or day, some living player is Mafia and the living Mafia are fewer
\* than the other living players; so it is when the first night begins and
\* after a player leaves during the game.
C24_NoDecidedGameGoesOn ==
    (inGames /\ status = "playing" /\ phase \in {"night", "day"})
        => LET M == Cardinality(Living(players, {"Mafia"}))
               N == Cardinality(alivePlayers(players)) - M
           IN  M >= 1 /\ M < N

\* C25: while the status is playing, no nightBegins, dayBegins, lobbyUpdate or
\* gameStateUpdate event that reaches a player carries the role of another
\* living player. The recipients are the caller for the gameStateUpdate of a
\* reconnectToRoom and the connected players of the room for the broadcasts.
C25_RolesStayHidden ==
    [][(inGames /\ status = "playing")
        => LET to == IF last'.op = "reconnectToRoom" THEN {last'.pid}
                     ELSE {r \in DOMAIN players' : players'[r].socketId \in sockets'}
           IN  \A r \in to : \A q \in (alivePlayers(players') \cap DOMAIN last'.payload) \ {r} :
                  last'.payload[q] \notin Roles]_vars

====
